---- MODULE Spec2Model ----
(***************************************************************************)
(* Model of src/lava.ts: the Lava client (class Lava), its eleven public   *)
(* operations and the shared request routine _request.                     *)
(*                                                                         *)
(* JavaScript values are tagged records:                                   *)
(*   [t |-> "undefined"], [t |-> "null"], [t |-> "str", s |-> ...],        *)
(*   [t |-> "num", n |-> ...], [t |-> "bool", b |-> ...],                  *)
(*   [t |-> "date", iso |-> ...], [t |-> "arr", items |-> <<...>>],        *)
(*   [t |-> "obj", fields |-> << <<key, value>>, ... >>]                   *)
(* An object keeps its properties as a sequence of <<key, value>> pairs in *)
(* insertion order, as a JavaScript object does.                           *)
(*                                                                         *)
(* fetch (node-fetch) and the @validate decorator (validate-utils) are     *)
(* imported libraries.  fetch is the environment: it resolves with a       *)
(* response or rejects with an Error, and response.json() resolves with    *)
(* the parsed body or rejects.  Argument objects are those the decorator   *)
(* lets through; it is taken to leave them as they are.                    *)
(***************************************************************************)
EXTENDS Integers, Sequences, FiniteSets, TLC

VARIABLES apiKey, pathPrefix, ctorApiKey, calls

vars == <<apiKey, pathPrefix, ctorApiKey, calls>>

(***************************************************************************)
(* Bounds                                                                  *)
(***************************************************************************)
\* number of invocations that may be in flight at once in SpecConc
NumCalls == 2

(***************************************************************************)
(* JavaScript values                                                       *)
(***************************************************************************)
Undefined == [t |-> "undefined"]
Null == [t |-> "null"]
Str(s) == [t |-> "str", s |-> s]
Num(n) == [t |-> "num", n |-> n]
Bool(b) == [t |-> "bool", b |-> b]
Date(iso) == [t |-> "date", iso |-> iso]
Arr(items) == [t |-> "arr", items |-> items]
Obj(fields) == [t |-> "obj", fields |-> fields]

\* the typeof operator
TypeOf(v) ==
  CASE v.t = "undefined" -> "undefined"
    [] v.t = "str" -> "string"
    [] v.t = "num" -> "number"
    [] v.t = "bool" -> "boolean"
    [] OTHER -> "object"

\* Object.keys(o) of a property list
Keys(fields) == {fields[k][1] : k \in DOMAIN fields}

\* property read o[key] on a property list: undefined when the key is missing
Get(fields, key) ==
  IF key \in Keys(fields)
  THEN fields[CHOOSE k \in DOMAIN fields : fields[k][1] = key][2]
  ELSE Undefined

\* property read v.key on a non-null value: arrays and primitives of the
\* model carry no own property of the names the code reads
GetProp(v, key) == IF v.t = "obj" THEN Get(v.fields, key) ELSE Undefined

Digit(d) ==
  CASE d = 0 -> "0" [] d = 1 -> "1" [] d = 2 -> "2" [] d = 3 -> "3"
    [] d = 4 -> "4" [] d = 5 -> "5" [] d = 6 -> "6" [] d = 7 -> "7"
    [] d = 8 -> "8" [] d = 9 -> "9"

RECURSIVE NatToString(_)
NatToString(n) ==
  IF n < 10 THEN Digit(n) ELSE NatToString(n \div 10) \o Digit(n % 10)

\* completion of an evaluation: a value, or an error thrown
Normal(value) == [throws |-> FALSE, value |-> value]
Abrupt(error) == [throws |-> TRUE, error |-> error]

\* the TypeError of the conversion of an object to a primitive when neither
\* toString nor valueOf gives one
ToPrimitiveError ==
  [name |-> "TypeError", message |-> "Cannot convert object to primitive value"]

RECURSIVE JoinItems(_, _)

\* the ToString conversion a template literal `${v}` applies, for the values
\* a property of a parsed JSON document can have: undefined (no such
\* property), null, a string, a number, a boolean, an array, an object.
\* An object parsed from JSON holds no function.  With an own property
\* toString the inherited method is shadowed by a value that cannot be
\* called, and valueOf (own: not callable, inherited: gives the object back)
\* yields no primitive either, so the conversion throws a TypeError;
\* without it Object.prototype.toString gives "[object Object]".  An array
\* converts through join, which converts each item.
RECURSIVE TemplateString(_)
TemplateString(v) ==
  CASE v.t = "undefined" -> Normal("undefined")
    [] v.t = "null" -> Normal("null")
    [] v.t = "str" -> Normal(v.s)
    [] v.t = "num" ->
         Normal(IF v.n < 0 THEN "-" \o NatToString(-v.n) ELSE NatToString(v.n))
    [] v.t = "bool" -> Normal(IF v.b THEN "true" ELSE "false")
    [] v.t = "arr" -> JoinItems(v.items, 1)
    [] v.t = "obj" ->
         IF "toString" \in Keys(v.fields)
         THEN Abrupt(ToPrimitiveError)
         ELSE Normal("[object Object]")

\* Array.prototype.join(",") over the items from index k on: null and
\* undefined items give the empty string, any other item its ToString, and
\* the first item whose conversion throws ends the join with that error
JoinItems(items, k) ==
  IF k > Len(items) THEN Normal("")
  ELSE LET x == items[k]
           sx == IF x.t \in {"undefined", "null"}
                 THEN Normal("") ELSE TemplateString(x)
       IN IF sx.throws \/ k = Len(items) THEN sx
          ELSE LET rest == JoinItems(items, k + 1)
               IN IF rest.throws THEN rest
                  ELSE Normal(sx.value \o "," \o rest.value)

(***************************************************************************)
(* Request bodies                                                          *)
(***************************************************************************)
\* lines 223-225: delete every key of data whose value is undefined
StripUndefined(data) == SelectSeq(data, LAMBDA e : e[2] # Undefined)

\* the JSON value JSON.stringify writes for a value, at any depth: a Date is
\* written through toJSON as its ISO string, an array item that is
\* undefined as null, an object without its properties that are undefined;
\* strings, numbers, booleans and null as themselves
RECURSIVE ToJSON(_)
ToJSON(v) ==
  CASE v.t = "date" -> Str(v.iso)
    [] v.t = "arr" ->
         Arr([k \in DOMAIN v.items |->
                IF v.items[k] = Undefined THEN Null ELSE ToJSON(v.items[k])])
    [] v.t = "obj" ->
         LET kept == SelectSeq(v.fields, LAMBDA e : e[2] # Undefined)
         IN Obj([k \in DOMAIN kept |-> <<kept[k][1], ToJSON(kept[k][2])>>])
    [] OTHER -> v

\* JSON.stringify(data): the JSON text of an object, kept as the document
\* it denotes, property by property in insertion order; a property whose
\* value is undefined is left out.  The text of the empty object is "{}",
\* a string, and not the absence of a body.
JSONstringify(data) ==
  LET kept == SelectSeq(data, LAMBDA e : e[2] # Undefined)
  IN [t |-> "jsontext",
      members |-> [k \in DOMAIN kept |-> <<kept[k][1], ToJSON(kept[k][2])>>]]

(***************************************************************************)
(* Errors and outcomes                                                     *)
(***************************************************************************)
\* line 5: class LavaError extends Error {}; new LavaError(message)
LavaError(message) == [name |-> "LavaError", message |-> message]

\* the TypeError the engine throws for the property read null.status
NullStatusError ==
  [name |-> "TypeError",
   message |-> "Cannot read properties of null (reading 'status')"]

Pending == [kind |-> "pending"]
Returned(value) == [kind |-> "returned", value |-> value]
Thrown(error) == [kind |-> "thrown", error |-> error]

\* a catch that lets the caught error through as it is
CatchRethrow(error) == Thrown(error)

\* lines 238-240: catch (error) { throw new LavaError(error.message); }
Catch(error) == Thrown(LavaError(error.message))

\* a template that joins code and message with a space only
ErrorMessageNoColon(result) ==
  LET code == TemplateString(GetProp(result, "code"))
      message == TemplateString(GetProp(result, "message"))
  IN IF code.throws THEN code
     ELSE IF message.throws THEN message
     ELSE Normal(code.value \o " " \o message.value)

\* line 234: the template literal `${result.code}: ${result.message}`,
\* which converts code, then message, and throws when a conversion throws
ErrorMessage(result) ==
  LET code == TemplateString(GetProp(result, "code"))
      message == TemplateString(GetProp(result, "message"))
  IN IF code.throws THEN code
     ELSE IF message.throws THEN message
     ELSE Normal(code.value \o ": " \o message.value)

\* lines 233-237: what the try block does once response.json() has resolved
\* with result: it returns a value or throws an error.  typeof null is
\* "object", so a null result reaches the read of result.status, which
\* throws a TypeError.  The argument of new LavaError is evaluated first, so
\* a template literal that throws leaves its TypeError as the error thrown.
TryResult(result) ==
  IF TypeOf(result) = "object"
  THEN IF result = Null
       THEN Abrupt(NullStatusError)
       ELSE IF GetProp(result, "status") = Str("error")
            THEN LET message == ErrorMessage(result)
                 IN IF message.throws THEN message
                    ELSE Abrupt(LavaError(message.value))
            ELSE Normal(result)
  ELSE Normal(result)

\* lines 232-240: the outcome of the routine for a parsed result; an error
\* thrown inside the try passes through the catch of line 238
HandleResult(result) ==
  LET r == TryResult(result)
  IN IF r.throws THEN Catch(r.error) ELSE Returned(r.value)

\* the error the catch of line 238 receives for a parsed result, if any
CaughtFor(result) ==
  LET r == TryResult(result)
  IN IF r.throws THEN r.error ELSE Undefined

(***************************************************************************)
(* The shared request routine, up to its first await                       *)
(***************************************************************************)
\* a url that leaves the prefix out
RequestUrlBare(path) == path

\* line 219: const url = this.pathPrefix + path
RequestUrl(path) == pathPrefix \o path

\* a header that puts a scheme before the key
RequestHeadersBearer == [Authorization |-> "Bearer " \o apiKey]

\* lines 220-222: const headers = { Authorization: this.apiKey }
RequestHeaders == [Authorization |-> apiKey]

\* lines 227-231: the arguments of the call fetch(url, {method, body, headers})
FetchCall(url, method, data, headers) ==
  [url |-> url, method |-> method, body |-> JSONstringify(data),
   headers |-> headers]

\* lines 218-231: _request(method, path, data) from its entry to the await
\* of fetch: the frame of the routine, with the fetch calls it has made
_request(method, path, data) ==
  LET url == RequestUrl(path)
      headers == RequestHeaders
      stripped == StripUndefined(data)
  IN [pc |-> "fetch", method |-> method, path |-> path, data |-> stripped,
      url |-> url, headers |-> headers,
      fetched |-> <<FetchCall(url, method, stripped, headers)>>,
      response |-> Undefined, result |-> Undefined, error |-> Undefined,
      outcome |-> Pending]

\* the default value of the data parameter of line 218: data: object = {}
EmptyData == <<>>

(***************************************************************************)
(* The data object each operation builds                                   *)
(***************************************************************************)
\* lines 97-106
withdrawCreateData(p) ==
  << <<"account", p.account>>, <<"amount", p.amount>>,
     <<"service", p.service>>, <<"wallet_to", p.walletTo>>,
     <<"order_id", p.orderId>>, <<"hook_url", p.hookUrl>>,
     <<"substract", p.subtract>>, <<"comment", p.comment>> >>

\* line 114
withdrawInfoData(p) == << <<"id", p.id>> >>

\* lines 122-128
transferCreateData(p) ==
  << <<"account_from", p.accountFrom>>, <<"account_to", p.accountTo>>,
     <<"amount", p.amount>>, <<"subtract", p.subtract>>,
     <<"comment", p.comment>> >>

\* line 136
transferInfoData(p) == << <<"id", p.id>> >>

\* lines 151-158
transactionsListData(p) ==
  << <<"transfer_type", p.transferType>>, <<"account", p.account>>,
     <<"period_start", p.periodStart>>, <<"period_end", p.periodEnd>>,
     <<"offset", p.offset>>, <<"limit", p.limit>> >>

\* lines 179-192
invoiceCreateData(p) ==
  << <<"wallet_to", p.walletTo>>, <<"sum", p.sum>>,
     <<"order_id", p.orderId>>, <<"hook_url", p.hookUrl>>,
     <<"success_url", p.successUrl>>, <<"fail_url", p.failUrl>>,
     <<"expire", p.expire>>, <<"subtract", p.subtract>>,
     <<"custom_fields", p.customFields>>, <<"comment", p.comment>>,
     <<"merchant_id", p.merchantId>>, <<"merchant_name", p.merchantName>> >>

\* line 200
invoiceInfoData(p) == << <<"id", p.id>>, <<"order_id", p.orderId>> >>

\* line 208
invoiceSetWebhookData(p) == << <<"url", p.url>> >>

(***************************************************************************)
(* Invocations.  calls[i] is one invocation slot of the client: the        *)
(* operation invoked, its argument object and the frame of _request.  An   *)
(* operation with parameters takes the set its argument object is drawn    *)
(* from.                                                                   *)
(***************************************************************************)
NoParams == Undefined

IdleCall ==
  [op |-> "none", params |-> NoParams,
   frame |-> [pc |-> "idle", method |-> "", path |-> "", data |-> <<>>,
              url |-> "", headers |-> [Authorization |-> ""],
              fetched |-> <<>>, response |-> Undefined,
              result |-> Undefined, error |-> Undefined,
              outcome |-> Pending]]

\* a slot can take a new invocation when no invocation is running in it
Free(i) == calls[i].frame.pc = "idle"

Invoke(i, op, p, frame) ==
  /\ i \in DOMAIN calls
  /\ calls' = [calls EXCEPT ![i] = [op |-> op, params |-> p, frame |-> frame]]
  /\ UNCHANGED <<apiKey, pathPrefix, ctorApiKey>>

\* lines 72-76
testPing(i) ==
  /\ Free(i)
  /\ Invoke(i, "testPing", NoParams, _request("GET", "/test/ping", EmptyData))

\* lines 78-82
walletList(i) ==
  /\ Free(i)
  /\ Invoke(i, "walletList", NoParams, _request("GET", "/wallet/list", EmptyData))

\* lines 84-108
withdrawCreate(i, params) ==
  /\ Free(i)
  /\ \E p \in params :
       Invoke(i, "withdrawCreate", p,
              _request("POST", "/withdraw/create", withdrawCreateData(p)))

\* lines 110-116
withdrawInfo(i, params) ==
  /\ Free(i)
  /\ \E p \in params :
       Invoke(i, "withdrawInfo", p,
              _request("POST", "/withdraw/info", withdrawInfoData(p)))

\* lines 118-130
transferCreate(i, params) ==
  /\ Free(i)
  /\ \E p \in params :
       Invoke(i, "transferCreate", p,
              _request("POST", "/transfer/create", transferCreateData(p)))

\* lines 132-138
transferInfo(i, params) ==
  /\ Free(i)
  /\ \E p \in params :
       Invoke(i, "transferInfo", p,
              _request("POST", "/transfer/info", transferInfoData(p)))

\* lines 140-160
transactionsList(i, params) ==
  /\ Free(i)
  /\ \E p \in params :
       Invoke(i, "transactionsList", p,
              _request("POST", "/transactions/list", transactionsListData(p)))

\* lines 162-194
invoiceCreate(i, params) ==
  /\ Free(i)
  /\ \E p \in params :
       Invoke(i, "invoiceCreate", p,
              _request("POST", "/invoice/create", invoiceCreateData(p)))

\* lines 196-202
invoiceInfo(i, params) ==
  /\ Free(i)
  /\ \E p \in params :
       Invoke(i, "invoiceInfo", p,
              _request("POST", "/invoice/info", invoiceInfoData(p)))

\* lines 204-210
invoiceSetWebhook(i, params) ==
  /\ Free(i)
  /\ \E p \in params :
       Invoke(i, "invoiceSetWebhook", p,
              _request("POST", "/invoice/set-webhook", invoiceSetWebhookData(p)))

\* lines 212-216
invoiceGenerateSecretKey(i) ==
  /\ Free(i)
  /\ Invoke(i, "invoiceGenerateSecretKey", NoParams,
            _request("GET", "/invoice/generate-secret-key", EmptyData))

(***************************************************************************)
(* The continuation of _request after each await                           *)
(***************************************************************************)
\* line 227: the promise of fetch resolves with a response
FetchResolve(i, response) ==
  /\ i \in DOMAIN calls
  /\ calls[i].frame.pc = "fetch"
  /\ calls' = [calls EXCEPT ![i].frame.pc = "json",
                            ![i].frame.response = response]
  /\ UNCHANGED <<apiKey, pathPrefix, ctorApiKey>>

\* a catch that issues the request once more instead of failing
FetchRejectRetry(i, error) ==
  /\ i \in DOMAIN calls
  /\ calls[i].frame.pc = "fetch"
  /\ calls' = [calls EXCEPT ![i].frame.fetched =
                  Append(calls[i].frame.fetched, calls[i].frame.fetched[1])]
  /\ UNCHANGED <<apiKey, pathPrefix, ctorApiKey>>

\* lines 227, 238-240: the promise of fetch rejects with error
FetchReject(i, error) ==
  /\ i \in DOMAIN calls
  /\ calls[i].frame.pc = "fetch"
  /\ calls' = [calls EXCEPT ![i].frame.pc = "done",
                            ![i].frame.error = error,
                            ![i].frame.outcome = Catch(error)]
  /\ UNCHANGED <<apiKey, pathPrefix, ctorApiKey>>

\* a routine that keeps the response in a place every invocation shares:
\* the result read is that of any response that has arrived
JsonResolveShared(i) ==
  /\ i \in DOMAIN calls
  /\ calls[i].frame.pc = "json"
  /\ calls[i].frame.response.kind = "json"
  /\ \E j \in DOMAIN calls :
       /\ calls[j].frame.response # Undefined
       /\ calls[j].frame.response.kind = "json"
       /\ LET result == calls[j].frame.response.value
          IN calls' = [calls EXCEPT ![i].frame.pc = "done",
                                    ![i].frame.result = result,
                                    ![i].frame.error = CaughtFor(result),
                                    ![i].frame.outcome = HandleResult(result)]
  /\ UNCHANGED <<apiKey, pathPrefix, ctorApiKey>>

\* lines 232-237: response.json() resolves with the parsed body
JsonResolve(i) ==
  /\ i \in DOMAIN calls
  /\ calls[i].frame.pc = "json"
  /\ calls[i].frame.response.kind = "json"
  /\ LET result == calls[i].frame.response.value
     IN calls' = [calls EXCEPT ![i].frame.pc = "done",
                               ![i].frame.result = result,
                               ![i].frame.error = CaughtFor(result),
                               ![i].frame.outcome = HandleResult(result)]
  /\ UNCHANGED <<apiKey, pathPrefix, ctorApiKey>>

\* lines 232, 238-240: response.json() rejects, the body is not JSON
JsonReject(i) ==
  /\ i \in DOMAIN calls
  /\ calls[i].frame.pc = "json"
  /\ calls[i].frame.response.kind = "malformed"
  /\ LET error == calls[i].frame.response.error
     IN calls' = [calls EXCEPT ![i].frame.pc = "done",
                               ![i].frame.error = error,
                               ![i].frame.outcome = Catch(error)]
  /\ UNCHANGED <<apiKey, pathPrefix, ctorApiKey>>

\* lines 236, 239: the promise of the operation settles with the outcome,
\* the caller's await ends and the frame of the invocation is gone
Settle(i) ==
  /\ i \in DOMAIN calls
  /\ calls[i].frame.pc = "done"
  /\ calls' = [calls EXCEPT ![i] = IdleCall]
  /\ UNCHANGED <<apiKey, pathPrefix, ctorApiKey>>

(***************************************************************************)
(* Inputs: argument objects, following the parameter interfaces of lines   *)
(* 7-65.  An optional parameter the caller leaves out is undefined.        *)
(***************************************************************************)
StringParams ==
  {"account", "service", "walletTo", "orderId", "hookUrl", "comment", "id",
   "accountFrom", "accountTo", "transferType", "successUrl", "failUrl",
   "merchantId", "merchantName", "url"}
NumberParams == {"amount", "sum", "expire", "offset", "limit"}
BooleanParams == {"subtract"}
DateParams == {"periodStart", "periodEnd"}

Flavours == {"typical", "falsy", "null"}

TypicalValue(k) ==
  CASE k \in StringParams -> Str(k \o "-1")
    [] k \in NumberParams -> Num(100)
    [] k \in BooleanParams -> Bool(TRUE)
    [] k \in DateParams -> Date("2021-01-01T00:00:00.000Z")
    [] OTHER -> Arr(<<Arr(<<Str("k"), Str("v")>>)>>)

FalsyValue(k) ==
  CASE k \in StringParams -> Str("")
    [] k \in NumberParams -> Num(0)
    [] k \in BooleanParams -> Bool(FALSE)
    [] k \in DateParams -> Date("1970-01-01T00:00:00.000Z")
    [] OTHER -> Arr(<<>>)

\* the value a supplied parameter takes: typical, falsy, or null for an
\* optional one
ArgValue(k, flavour, isRequired) ==
  CASE flavour = "typical" -> TypicalValue(k)
    [] flavour = "falsy" -> FalsyValue(k)
    [] OTHER -> IF isRequired THEN TypicalValue(k) ELSE Null

Args(required, optional, flavour, supplied) ==
  [k \in required \cup optional |->
     IF k \in required THEN ArgValue(k, flavour, TRUE)
     ELSE IF k \in supplied THEN ArgValue(k, flavour, FALSE)
     ELSE Undefined]

Operations ==
  {"testPing", "walletList", "withdrawCreate", "withdrawInfo",
   "transferCreate", "transferInfo", "transactionsList", "invoiceCreate",
   "invoiceInfo", "invoiceSetWebhook", "invoiceGenerateSecretKey"}

\* required parameters of an operation (interfaces, lines 7-65)
Required(op) ==
  CASE op = "withdrawCreate" -> {"account", "amount", "service", "walletTo"}
    [] op = "withdrawInfo" -> {"id"}
    [] op = "transferCreate" -> {"accountFrom", "accountTo", "amount"}
    [] op = "transferInfo" -> {"id"}
    [] op = "invoiceCreate" -> {"walletTo", "sum"}
    [] op = "invoiceSetWebhook" -> {"url"}
    [] OTHER -> {}

\* optional parameters of an operation (interfaces, lines 7-65)
Optional(op) ==
  CASE op = "withdrawCreate" -> {"orderId", "hookUrl", "subtract", "comment"}
    [] op = "transferCreate" -> {"subtract", "comment"}
    [] op = "transactionsList" ->
         {"transferType", "account", "periodStart", "periodEnd", "offset",
          "limit"}
    [] op = "invoiceCreate" ->
         {"orderId", "hookUrl", "successUrl", "failUrl", "expire", "subtract",
          "customFields", "comment", "merchantId", "merchantName"}
    [] op = "invoiceInfo" -> {"id", "orderId"}
    [] OTHER -> {}

\* every combination of supplied and unset optional parameters
AllArgs(op) ==
  {Args(Required(op), Optional(op), f, S) :
     f \in Flavours, S \in SUBSET Optional(op)}

\* the argument objects of the concurrent specification: per operation one
\* object with some optional parameters supplied and the others unset
ConcSupplied == {"subtract", "orderId", "periodStart", "limit"}
ConcArgs(op) ==
  {Args(Required(op), Optional(op), "typical", Optional(op) \cap ConcSupplied)}

\* the argument objects of each operation, per specification
withdrawCreateArgs == AllArgs("withdrawCreate")
withdrawInfoArgs == AllArgs("withdrawInfo")
transferCreateArgs == AllArgs("transferCreate")
transferInfoArgs == AllArgs("transferInfo")
transactionsListArgs == AllArgs("transactionsList")
invoiceCreateArgs == AllArgs("invoiceCreate")
invoiceInfoArgs == AllArgs("invoiceInfo")
invoiceSetWebhookArgs == AllArgs("invoiceSetWebhook")
withdrawCreateConcArgs == ConcArgs("withdrawCreate")
withdrawInfoConcArgs == ConcArgs("withdrawInfo")
transferCreateConcArgs == ConcArgs("transferCreate")
transferInfoConcArgs == ConcArgs("transferInfo")
transactionsListConcArgs == ConcArgs("transactionsList")
invoiceCreateConcArgs == ConcArgs("invoiceCreate")
invoiceInfoConcArgs == ConcArgs("invoiceInfo")
invoiceSetWebhookConcArgs == ConcArgs("invoiceSetWebhook")

(***************************************************************************)
(* Inputs: what the HTTP collaborator answers                              *)
(***************************************************************************)
JsonResponse(value) == [kind |-> "json", value |-> value]
MalformedResponse(error) == [kind |-> "malformed", error |-> error]

ErrorBadAccount ==
  Obj(<< <<"status", Str("error")>>, <<"code", Num(42)>>,
         <<"message", Str("bad account")>> >>)

ResultValues ==
  { ErrorBadAccount,
    Obj(<< <<"status", Str("error")>>, <<"code", Str("E1")>>,
           <<"message", Str("")>> >>),
    Obj(<< <<"status", Str("error")>>, <<"code", Num(-7)>>,
           <<"message", Null>> >>),
    Obj(<< <<"status", Str("error")>> >>),
    Obj(<< <<"status", Str("error")>>,
           <<"code", Obj(<< <<"toString", Num(1)>> >>)>>,
           <<"message", Str("M")>> >>),
    Obj(<< <<"status", Str("error")>>, <<"code", Num(5)>>,
           <<"message", Arr(<<Obj(<< <<"toString", Str("x")>> >>)>>)>> >>),
    Obj(<< <<"status", Str("error")>>,
           <<"code", Obj(<< <<"valueOf", Num(1)>> >>)>>,
           <<"message", Arr(<<Num(1), Null, Str("x"), Arr(<<Bool(TRUE)>>)>>)>> >>),
    Obj(<< <<"status", Str("ok")>>, <<"data", Obj(<< <<"id", Str("w1")>> >>)>> >>),
    Obj(<< <<"status", Str("Error")>>, <<"code", Num(1)>> >>),
    Obj(<< <<"code", Num(42)>>, <<"message", Str("bad account")>> >>),
    Obj(<<>>),
    Arr(<<>>),
    Arr(<<Str("error")>>),
    Str("error"),
    Str(""),
    Num(0),
    Bool(TRUE),
    Bool(FALSE),
    Null }

SyntaxErrors ==
  { [name |-> "SyntaxError",
     message |-> "Unexpected token < in JSON at position 0"],
    [name |-> "FetchError",
     message |-> "invalid json response body, reason: Unexpected end of JSON input"] }

Responses ==
  {JsonResponse(v) : v \in ResultValues}
    \cup {MalformedResponse(e) : e \in SyntaxErrors}

TransportErrors ==
  { [name |-> "FetchError", message |-> "connect ECONNREFUSED 127.0.0.1:443"],
    [name |-> "TypeError",
     message |-> "Request with GET/HEAD method cannot have body"],
    [name |-> "AbortError", message |-> ""] }

ConcResponses ==
  { JsonResponse(ErrorBadAccount), JsonResponse(Arr(<<Str("error")>>)),
    MalformedResponse([name |-> "SyntaxError",
                       message |-> "Unexpected token < in JSON at position 0"]) }

ConcTransportErrors ==
  { [name |-> "FetchError", message |-> "connect ECONNREFUSED 127.0.0.1:443"] }

ApiKeys == {"key-A", "Bearer key-B"}

(***************************************************************************)
(* Specifications                                                          *)
(***************************************************************************)
\* lines 68-70: pathPrefix = 'https://api.lava.ru'; constructor(apiKey)
InitClient ==
  /\ ctorApiKey \in ApiKeys
  /\ apiKey = ctorApiKey
  /\ pathPrefix = "https://api.lava.ru"

\* one caller that awaits each invocation before the next
Init == InitClient /\ calls = [i \in {1} |-> IdleCall]

Next ==
  \/ testPing(1)
  \/ walletList(1)
  \/ withdrawCreate(1, withdrawCreateArgs)
  \/ withdrawInfo(1, withdrawInfoArgs)
  \/ transferCreate(1, transferCreateArgs)
  \/ transferInfo(1, transferInfoArgs)
  \/ transactionsList(1, transactionsListArgs)
  \/ invoiceCreate(1, invoiceCreateArgs)
  \/ invoiceInfo(1, invoiceInfoArgs)
  \/ invoiceSetWebhook(1, invoiceSetWebhookArgs)
  \/ invoiceGenerateSecretKey(1)
  \/ \E r \in Responses : FetchResolve(1, r)
  \/ \E e \in TransportErrors : FetchReject(1, e)
  \/ JsonResolve(1)
  \/ JsonReject(1)
  \/ Settle(1)

Spec == Init /\ [][Next]_vars

\* NumCalls invocations in flight at once on one client
InitConc == InitClient /\ calls = [i \in 1..NumCalls |-> IdleCall]

NextConc ==
  \E i \in 1..NumCalls :
    \/ testPing(i)
    \/ walletList(i)
    \/ withdrawCreate(i, withdrawCreateConcArgs)
    \/ withdrawInfo(i, withdrawInfoConcArgs)
    \/ transferCreate(i, transferCreateConcArgs)
    \/ transferInfo(i, transferInfoConcArgs)
    \/ transactionsList(i, transactionsListConcArgs)
    \/ invoiceCreate(i, invoiceCreateConcArgs)
    \/ invoiceInfo(i, invoiceInfoConcArgs)
    \/ invoiceSetWebhook(i, invoiceSetWebhookConcArgs)
    \/ invoiceGenerateSecretKey(i)
    \/ \E r \in ConcResponses : FetchResolve(i, r)
    \/ \E e \in ConcTransportErrors : FetchReject(i, e)
    \/ JsonResolve(i)
    \/ JsonReject(i)
    \/ Settle(i)

SpecConc == InitConc /\ [][NextConc]_vars

(***************************************************************************)
(* The endpoint table of the specification, against which the requests of  *)
(* the code are compared                                                   *)
(***************************************************************************)
GetOperations == {"testPing", "walletList", "invoiceGenerateSecretKey"}
BodyOperations == Operations \ GetOperations

EndpointMethod(op) == IF op \in GetOperations THEN "GET" ELSE "POST"

EndpointPath(op) ==
  CASE op = "testPing" -> "/test/ping"
    [] op = "walletList" -> "/wallet/list"
    [] op = "withdrawCreate" -> "/withdraw/create"
    [] op = "withdrawInfo" -> "/withdraw/info"
    [] op = "transferCreate" -> "/transfer/create"
    [] op = "transferInfo" -> "/transfer/info"
    [] op = "transactionsList" -> "/transactions/list"
    [] op = "invoiceCreate" -> "/invoice/create"
    [] op = "invoiceInfo" -> "/invoice/info"
    [] op = "invoiceSetWebhook" -> "/invoice/set-webhook"
    [] op = "invoiceGenerateSecretKey" -> "/invoice/generate-secret-key"

\* the snake_case body key of a camelCase parameter name
BodyKey(k) ==
  CASE k = "walletTo" -> "wallet_to"
    [] k = "orderId" -> "order_id"
    [] k = "hookUrl" -> "hook_url"
    [] k = "accountFrom" -> "account_from"
    [] k = "accountTo" -> "account_to"
    [] k = "transferType" -> "transfer_type"
    [] k = "periodStart" -> "period_start"
    [] k = "periodEnd" -> "period_end"
    [] k = "successUrl" -> "success_url"
    [] k = "failUrl" -> "fail_url"
    [] k = "customFields" -> "custom_fields"
    [] k = "merchantId" -> "merchant_id"
    [] k = "merchantName" -> "merchant_name"
    [] OTHER -> k

Slots == DOMAIN calls
Issued(i) == calls[i].frame.fetched # <<>>
Sent(i) == calls[i].frame.fetched[1]
Done(i) == calls[i].frame.pc = "done"

\* the parameters of invocation i the caller supplied
Supplied(i) == {k \in DOMAIN calls[i].params : calls[i].params[k] # Undefined}

\* invocation i has sent a request that carries a JSON body of its arguments
SentBody(i) ==
  /\ Issued(i)
  /\ calls[i].op \in BodyOperations
  /\ Sent(i).body # Undefined

FalsyValues == {Null, Str(""), Bool(FALSE), Num(0)}

(***************************************************************************)
(* Claims                                                                  *)
(***************************************************************************)

\* C1: for every operation with a body and every combination of supplied
\* and unset optional parameters, the keys of the transmitted body are
\* exactly the body keys of the supplied arguments, and an argument supplied
\* as null, "", false or 0 appears under its body key with that value.
\* Stated as the claim has it; withdrawCreate breaks it when subtract is
\* supplied, because the body then has the key substract.
C1_KeyPresence ==
  \A i \in Slots :
    SentBody(i) =>
      /\ Keys(Sent(i).body.members) = {BodyKey(k) : k \in Supplied(i)}
      /\ \A k \in Supplied(i) :
           calls[i].params[k] \in FalsyValues =>
             Get(Sent(i).body.members, BodyKey(k)) = calls[i].params[k]

\* C2: every supplied parameter is carried under the snake_case form of its
\* name with its (JSON) value, never under the camelCase name or any other
\* key.  Stated as the claim has it; withdrawCreate sends subtract under the
\* key substract.
C2_FieldNames ==
  \A i \in Slots :
    SentBody(i) =>
      /\ \A k \in Supplied(i) :
           /\ BodyKey(k) \in Keys(Sent(i).body.members)
           /\ Get(Sent(i).body.members, BodyKey(k)) = ToJSON(calls[i].params[k])
           /\ k # BodyKey(k) => k \notin Keys(Sent(i).body.members)
      /\ Keys(Sent(i).body.members) \subseteq {BodyKey(k) : k \in Supplied(i)}

\* C3: each operation issues its request with the HTTP method and path of
\* its row of the endpoint table, and the URL requested is the base URL
\* followed by that path.
C3_MethodAndPath ==
  \A i \in Slots :
    Issued(i) =>
      /\ Sent(i).method = EndpointMethod(calls[i].op)
      /\ Sent(i).url = pathPrefix \o EndpointPath(calls[i].op)
      /\ Sent(i).url = "https://api.lava.ru" \o EndpointPath(calls[i].op)

C3_Witness ==
  \E i \in Slots :
    /\ Issued(i)
    /\ calls[i].op = "invoiceGenerateSecretKey"
    /\ Sent(i).method = "GET"
    /\ Sent(i).url = "https://api.lava.ru/invoice/generate-secret-key"

\* the parsed result of invocation i is an object whose status is "error"
ErrorShaped(result) ==
  /\ result.t = "obj"
  /\ GetProp(result, "status") = Str("error")

\* C4 as first stated: when the parsed response is an object whose status
\* is "error", with code c and message m, the operation fails with a
\* LavaError whose message is "<c>: <m>", the string forms of c and m joined
\* by ": ", and nothing is returned.  A code or message that has no string
\* form (an object with an own toString property) breaks it.
C4_RemoteErrorAlways ==
  \A i \in Slots :
    (Done(i) /\ ErrorShaped(calls[i].frame.result)) =>
      LET result == calls[i].frame.result
          c == TemplateString(GetProp(result, "code"))
          m == TemplateString(GetProp(result, "message"))
      IN /\ ~c.throws
         /\ ~m.throws
         /\ calls[i].frame.outcome = Thrown(LavaError(c.value \o ": " \o m.value))

\* C4: when the parsed response is an object whose status is "error", with
\* code c and message m, the operation fails with a LavaError and nothing
\* is returned; the message is "<c>: <m>" whenever c and m convert to
\* strings, and the message of the conversion's TypeError when one of them
\* does not.
C4_RemoteError ==
  \A i \in Slots :
    (Done(i) /\ ErrorShaped(calls[i].frame.result)) =>
      LET result == calls[i].frame.result
          outcome == calls[i].frame.outcome
          c == TemplateString(GetProp(result, "code"))
          m == TemplateString(GetProp(result, "message"))
      IN /\ outcome.kind = "thrown"
         /\ outcome.error.name = "LavaError"
         /\ (~c.throws /\ ~m.throws) =>
              outcome.error.message = c.value \o ": " \o m.value
         /\ (c.throws \/ m.throws) =>
              outcome.error.message = "Cannot convert object to primitive value"
         /\ result = ErrorBadAccount =>
              outcome.error.message = "42: bad account"
         /\ (GetProp(result, "code") = Str("E1")
               /\ GetProp(result, "message") = Str("")) =>
              outcome.error.message = "E1: "
         /\ (GetProp(result, "code") = Num(-7)
               /\ GetProp(result, "message") = Null) =>
              outcome.error.message = "-7: null"
         /\ GetProp(result, "code") = Obj(<< <<"valueOf", Num(1)>> >>) =>
              outcome.error.message = "[object Object]: 1,,x,true"
         /\ Keys(result.fields) = {"status"} =>
              outcome.error.message = "undefined: undefined"

C4_Witness ==
  \E i \in Slots :
    /\ Done(i)
    /\ calls[i].frame.result = ErrorBadAccount
    /\ calls[i].frame.outcome = Thrown(LavaError("42: bad account"))

\* invocation i has parsed the response body as JSON
Parsed(i) ==
  /\ Done(i)
  /\ calls[i].frame.response # Undefined
  /\ calls[i].frame.response.kind = "json"

\* C5: any parsed response that is not an object with status "error" (an
\* object with another or no status, an array, a string, a number, a
\* boolean, or null) is returned to the caller unchanged and no error is
\* raised.  Stated as the claim has it; a null response breaks it.
C5_PassThrough ==
  \A i \in Slots :
    (Parsed(i) /\ ~ErrorShaped(calls[i].frame.response.value)) =>
      calls[i].frame.outcome = Returned(calls[i].frame.response.value)

\* the HTTP call of invocation i failed
TransportFailed(i) == Done(i) /\ calls[i].frame.response = Undefined

\* parsing the response of invocation i as JSON failed
ParseFailed(i) ==
  /\ Done(i)
  /\ calls[i].frame.response # Undefined
  /\ calls[i].frame.response.kind = "malformed"

\* C6: a failure of the HTTP call or of parsing the response as JSON
\* surfaces as a LavaError whose message is the message of the underlying
\* failure, and no error of another kind leaves the request routine.
C6_UniformError ==
  \A i \in Slots :
    LET f == calls[i].frame
    IN /\ TransportFailed(i) =>
            /\ f.error # Undefined
            /\ f.error.name # "LavaError"
            /\ f.outcome = Thrown([name |-> "LavaError",
                                   message |-> f.error.message])
       /\ ParseFailed(i) =>
            f.outcome = Thrown([name |-> "LavaError",
                                message |-> f.response.error.message])
       /\ f.outcome.kind = "thrown" => f.outcome.error.name = "LavaError"

C6_Witness ==
  \E i \in Slots :
    /\ TransportFailed(i)
    /\ calls[i].frame.error =
         [name |-> "FetchError", message |-> "connect ECONNREFUSED 127.0.0.1:443"]
    /\ calls[i].frame.outcome =
         Thrown([name |-> "LavaError",
                 message |-> "connect ECONNREFUSED 127.0.0.1:443"])

\* C7: the Authorization header of every request is exactly the API key
\* passed to the constructor, with no prefix or other alteration.
C7_Authorization ==
  \A i \in Slots :
    \A n \in DOMAIN calls[i].frame.fetched :
      /\ calls[i].frame.fetched[n].headers.Authorization = ctorApiKey
      /\ DOMAIN calls[i].frame.fetched[n].headers = {"Authorization"}

C7_Witness ==
  \E i \in Slots :
    /\ Issued(i)
    /\ ctorApiKey = "Bearer key-B"
    /\ Sent(i).headers.Authorization = "Bearer key-B"

\* C8: the GET operations (testPing, walletList, invoiceGenerateSecretKey)
\* never send a request body.  Stated as the claim has it; the code passes
\* the text of the empty object as the body of every GET request.
C8_GetWithoutBody ==
  \A i \in Slots :
    (Issued(i) /\ calls[i].op \in GetOperations) => Sent(i).body = Undefined

\* the data object an operation builds from its arguments
DataOf(op, p) ==
  CASE op = "withdrawCreate" -> withdrawCreateData(p)
    [] op = "withdrawInfo" -> withdrawInfoData(p)
    [] op = "transferCreate" -> transferCreateData(p)
    [] op = "transferInfo" -> transferInfoData(p)
    [] op = "transactionsList" -> transactionsListData(p)
    [] op = "invoiceCreate" -> invoiceCreateData(p)
    [] op = "invoiceInfo" -> invoiceInfoData(p)
    [] op = "invoiceSetWebhook" -> invoiceSetWebhookData(p)
    [] OTHER -> EmptyData

\* C9: with several invocations in flight on one client, in any
\* interleaving, each transmits the method, path and body built from its own
\* arguments and ends with the outcome of its own response, and the client's
\* API key and base URL stay as constructed.
C9_Isolation ==
  /\ apiKey = ctorApiKey
  /\ pathPrefix = "https://api.lava.ru"
  /\ \A i \in Slots :
       LET f == calls[i].frame
       IN /\ Issued(i) =>
               /\ Sent(i).method = EndpointMethod(calls[i].op)
               /\ Sent(i).url = pathPrefix \o EndpointPath(calls[i].op)
               /\ Sent(i).body = JSONstringify(DataOf(calls[i].op, calls[i].params))
          /\ Parsed(i) =>
               /\ f.result = f.response.value
               /\ f.outcome = HandleResult(f.response.value)
               /\ f.outcome.kind = "returned" => f.outcome.value = f.response.value
          /\ ParseFailed(i) =>
               f.outcome = Thrown(LavaError(f.response.error.message))
          /\ TransportFailed(i) => f.outcome.kind = "thrown"

C9_Witness ==
  \E i, j \in Slots :
    /\ i # j
    /\ calls[i].op = "withdrawCreate" /\ calls[j].op = "transferInfo"
    /\ Done(i) /\ Done(j)
    /\ calls[i].frame.outcome.kind = "returned"
    /\ calls[j].frame.outcome.kind = "thrown"
    /\ calls[i].frame.response # calls[j].frame.response
    /\ Sent(i).body # Sent(j).body

\* C10: every invocation issues at most one HTTP call and ends either by
\* returning the parsed response body or by raising LavaError; after a
\* failure no second HTTP call is made.
C10_SingleShot ==
  \A i \in Slots :
    LET f == calls[i].frame
    IN /\ Len(f.fetched) <= 1
       /\ f.pc \in {"fetch", "json"} => (Len(f.fetched) = 1 /\ f.outcome = Pending)
       /\ Done(i) =>
            /\ Len(f.fetched) = 1
            /\ \/ f.outcome.kind = "returned" /\ f.outcome.value = f.result
                   /\ f.result # Undefined
               \/ f.outcome.kind = "thrown" /\ f.outcome.error.name = "LavaError"

C10_Witness ==
  \E i \in Slots :
    /\ TransportFailed(i)
    /\ calls[i].frame.outcome.kind = "thrown"
    /\ Len(calls[i].frame.fetched) = 1

====
